---- MODULE Spec2Model ----
(***************************************************************************)
(* go-fetch: download a stream, peel gzip/bzip2 layers, extract zip/tar    *)
(* archives or copy the opaque stream to its destination.                  *)
(*                                                                         *)
(* Two revisions of the program are modelled side by side; `rev` says      *)
(* which one runs:                                                         *)
(*   "main"  src/main.go             (log.Fatal on every error)            *)
(*   "part"  src/unnamed/part_000, lines 1-279 (errors are returned)       *)
(*                                                                         *)
(* Strings are sequences of one-character strings; a byte of a stream is a *)
(* short string naming it.                                                 *)
(* A filesystem path is the sequence of its components below the root.     *)
(***************************************************************************)
EXTENDS Integers, Sequences, FiniteSets, TLC

VARIABLES
    rev,         \* revision of the program that runs
    unpack,      \* flag -unpack
    stdout,      \* target == "-"
    targetIsDir, \* target is (to be) a directory
    target,      \* string: the destination path
    targetName,  \* string: the inferred file name
    streams,     \* streams[i+1] is what decompressing streams[i] yields
    depth,       \* index in streams of the stream uncompress is looking at
    pc,          \* "main", "uncompress", "unarchive", "done"
    class,       \* branch taken by the last run of uncompress' switch
    trace,       \* branches taken by uncompress so far, in order
    err,         \* "" while running or on success, else the fatal error
    fs,          \* the filesystem: path -> node
    out,         \* bytes written to standard output
    read,        \* archive entries returned by unarchiveNext so far
    calls,       \* filesystem calls made by the last step, in order
    injected,    \* the failure the environment injected into the last step
    handed       \* bytes of the stream as handed on by the last run of uncompress

vars == <<rev, unpack, stdout, targetIsDir, target, targetName, streams, depth,
          pc, class, trace, err, fs, out, read, calls, injected,
          handed>>

(***************************************************************************)
(* Bounds of the model.                                                    *)
(***************************************************************************)
MaxLayers == 2        \* compression layers around the innermost stream
MaxEntries == 2       \* entries read from one archive (archive runs)
PipelineEntries == 1  \* entries read from one archive (whole-pipeline runs)
MaxLinkHops == 2      \* symbolic links followed while resolving one path

(***************************************************************************)
(* Program constants.                                                      *)
(***************************************************************************)
SniffWindow == 264
TarMagicOffset == 257

(***************************************************************************)
(* Strings.                                                                *)
(***************************************************************************)
SEP == "/"

Min(a, b) == IF a < b THEN a ELSE b

\* bytes.HasPrefix / strings.HasPrefix
HasPrefix(s, p) == Len(s) >= Len(p) /\ SubSeq(s, 1, Len(p)) = p

HasSuffix(s, p) == Len(s) >= Len(p) /\ SubSeq(s, Len(s) - Len(p) + 1, Len(s)) = p

\* strings.TrimSuffix
TrimSuffix(s, p) == IF HasSuffix(s, p) THEN SubSeq(s, 1, Len(s) - Len(p)) ELSE s

\* strings.ContainsRune
ContainsRune(s, c) == \E i \in 1..Len(s) : s[i] = c

\* the components of s between separators, empty ones included
RECURSIVE SplitFrom(_, _, _)
SplitFrom(s, i, cur) ==
    IF i > Len(s) THEN <<cur>>
    ELSE IF s[i] = SEP THEN <<cur>> \o SplitFrom(s, i + 1, <<>>)
    ELSE SplitFrom(s, i + 1, Append(cur, s[i]))

Split(s) == SplitFrom(s, 1, <<>>)

DOT == <<".">>
DOTDOT == <<".", ".">>

\* filepath.Clean of a rooted path, as components: "." and empty components go,
\* ".." removes the component before it, and is dropped at the root
RECURSIVE CleanComps(_, _)
CleanComps(comps, acc) ==
    IF comps = <<>> THEN acc
    ELSE LET c == Head(comps) IN
         IF c = <<>> \/ c = DOT THEN CleanComps(Tail(comps), acc)
         ELSE IF c = DOTDOT
              THEN CleanComps(Tail(comps),
                              IF acc = <<>> THEN acc ELSE SubSeq(acc, 1, Len(acc) - 1))
         ELSE CleanComps(Tail(comps), Append(acc, c))

\* the string of a rooted path
RECURSIVE Render(_)
Render(comps) ==
    IF comps = <<>> THEN <<>>
    ELSE <<SEP>> \o Head(comps) \o Render(Tail(comps))

PathString(comps) == IF comps = <<>> THEN <<SEP>> ELSE Render(comps)

\* filepath.Clean of a rooted path
Clean(s) == PathString(CleanComps(Split(s), <<>>))

\* filepath.Join(a, b) for a rooted a: empty elements are ignored, the rest is
\* joined with separators and cleaned
Join(a, b) == IF b = <<>> THEN Clean(a) ELSE Clean(a \o <<SEP>> \o b)

\* filepath.Abs with the working directory at the root
Abs(s) == IF HasPrefix(s, <<SEP>>) THEN Clean(s) ELSE Clean(<<SEP>> \o s)

\* filepath.Dir of a clean rooted path
Dir(s) ==
    LET c == CleanComps(Split(s), <<>>) IN
    IF c = <<>> THEN <<SEP>> ELSE PathString(SubSeq(c, 1, Len(c) - 1))

\* the filesystem path (components) a rooted path string names
PathOf(s) == CleanComps(Split(s), <<>>)

(***************************************************************************)
(* The filesystem.  fs maps the path of every existing node to the node;   *)
(* the root <<>> is always a directory.  Permission checks are not         *)
(* modelled: a refusal by the operating system is an injected fault.       *)
(***************************************************************************)
DirNode(mode) == [kind |-> "dir", data |-> <<>>, mode |-> mode, mtime |-> 0]
FileNode(mode) == [kind |-> "file", data |-> <<>>, mode |-> mode, mtime |-> 0]
LinkNode(old) == [kind |-> "link", data |-> old, mode |-> 0, mtime |-> 0]

Front(p) == SubSeq(p, 1, Len(p) - 1)

\* Path resolution as the kernel does it, from the existing directory cur along
\* the components rest; follow says whether a symbolic link in the last
\* component is followed.  The result names the node reached (exists) or the
\* place a missing last component would be created at.
RECURSIVE Walk(_, _, _, _, _)
Walk(f, cur, rest, follow, fuel) ==
    IF rest = <<>> THEN [err |-> "", path |-> cur, exists |-> TRUE]
    ELSE LET c == Head(rest)
             tl == Tail(rest)
             nxt == Append(cur, c)
         IN
         IF c = <<>> \/ c = DOT THEN Walk(f, cur, tl, follow, fuel)
         ELSE IF c = DOTDOT
              THEN Walk(f, IF cur = <<>> THEN cur ELSE Front(cur), tl, follow, fuel)
         ELSE IF nxt \notin DOMAIN f
              THEN IF tl = <<>> THEN [err |-> "", path |-> nxt, exists |-> FALSE]
                   ELSE [err |-> "ENOENT", path |-> nxt, exists |-> FALSE]
         ELSE IF f[nxt].kind = "dir" THEN Walk(f, nxt, tl, follow, fuel)
         ELSE IF f[nxt].kind = "file"
              THEN IF tl = <<>> THEN [err |-> "", path |-> nxt, exists |-> TRUE]
                   ELSE [err |-> "ENOTDIR", path |-> nxt, exists |-> TRUE]
         ELSE \* a symbolic link
              IF tl = <<>> /\ ~follow THEN [err |-> "", path |-> nxt, exists |-> TRUE]
              ELSE IF fuel = 0 THEN [err |-> "ELOOP", path |-> nxt, exists |-> TRUE]
              ELSE LET old == f[nxt].data IN
                   Walk(f, IF HasPrefix(old, <<SEP>>) THEN <<>> ELSE cur,
                        Split(old) \o tl, follow, fuel - 1)

\* stat(2): the node a path names, symbolic links followed
Stat(f, p) ==
    LET w == Walk(f, <<>>, p, TRUE, MaxLinkHops) IN
    IF w.err # "" THEN w
    ELSE IF ~w.exists THEN [err |-> "ENOENT", path |-> w.path, exists |-> FALSE]
    ELSE w

\* mkdir(2)
Mkdir(f, p, perm) ==
    LET w == Walk(f, <<>>, p, FALSE, MaxLinkHops) IN
    IF w.err # "" THEN [fs |-> f, err |-> w.err]
    ELSE IF w.exists THEN [fs |-> f, err |-> "EEXIST"]
    ELSE [fs |-> (w.path :> DirNode(perm)) @@ f, err |-> ""]

\* os.MkdirAll: nothing to do for an existing directory; else the parent is
\* created first and then the directory itself
RECURSIVE MkdirAll(_, _, _)
MkdirAll(f, p, perm) ==
    LET st == Stat(f, p) IN
    IF st.err = ""
    THEN IF f[st.path].kind = "dir" THEN [fs |-> f, err |-> ""]
         ELSE [fs |-> f, err |-> "ENOTDIR"]
    ELSE LET par == IF p = <<>> THEN [fs |-> f, err |-> ""]
                    ELSE MkdirAll(f, Front(p), perm)
         IN
         IF par.err # "" THEN par
         ELSE LET m == Mkdir(par.fs, p, perm)
                  ls == Walk(par.fs, <<>>, p, FALSE, MaxLinkHops)
              IN
              IF m.err # "" /\ ls.err = "" /\ ls.exists /\ par.fs[ls.path].kind = "dir"
              THEN [fs |-> par.fs, err |-> ""]
              ELSE m

\* os.OpenFile(p, O_WRONLY|O_CREATE|O_TRUNC, mode): the file is created where
\* the path leads (symbolic links followed) or emptied if it exists; at is the
\* node the handle writes to
OpenFile(f, p, mode) ==
    LET w == Walk(f, <<>>, p, TRUE, MaxLinkHops) IN
    IF w.err # "" THEN [fs |-> f, err |-> w.err, at |-> w.path]
    ELSE IF ~w.exists THEN [fs |-> (w.path :> FileNode(mode)) @@ f, err |-> "", at |-> w.path]
    ELSE IF f[w.path].kind = "dir" THEN [fs |-> f, err |-> "EISDIR", at |-> w.path]
    ELSE [fs |-> [f EXCEPT ![w.path].data = <<>>], err |-> "", at |-> w.path]

\* the bytes written through an open handle
WriteAt(f, at, bytes) == [f EXCEPT ![at].data = @ \o bytes]

\* os.Symlink(old, p): old is stored as given; an empty old is refused
Symlink(f, old, p) ==
    LET w == Walk(f, <<>>, p, FALSE, MaxLinkHops) IN
    IF old = <<>> THEN [fs |-> f, err |-> "ENOENT"]
    ELSE IF w.err # "" THEN [fs |-> f, err |-> w.err]
    ELSE IF w.exists THEN [fs |-> f, err |-> "EEXIST"]
    ELSE [fs |-> (w.path :> LinkNode(old)) @@ f, err |-> ""]

\* os.Chtimes(p, t, t)
Chtimes(f, p, t) ==
    LET st == Stat(f, p) IN
    IF st.err # "" THEN [fs |-> f, err |-> st.err]
    ELSE [fs |-> [f EXCEPT ![st.path].mtime = t], err |-> ""]

(***************************************************************************)
(* Permission bits.                                                        *)
(***************************************************************************)
RECURSIVE BitOr(_, _)
BitOr(a, b) ==
    IF a = 0 THEN b
    ELSE IF b = 0 THEN a
    ELSE 2 * BitOr(a \div 2, b \div 2) + (IF a % 2 = 1 \/ b % 2 = 1 THEN 1 ELSE 0)

RECURSIVE BitAnd(_, _)
BitAnd(a, b) ==
    IF a = 0 \/ b = 0 THEN 0
    ELSE 2 * BitAnd(a \div 2, b \div 2) + (IF a % 2 = 1 /\ b % 2 = 1 THEN 1 ELSE 0)

PermOwnerWX == 192   \* 0300
PermGroupX == 8      \* 0010
PermOtherX == 1      \* 0001
PermGroupAll == 56   \* 0070
PermOtherAll == 7    \* 0007
PermDirAll == 511    \* 0777
PermDirMain == 493   \* 0755
PermFileAll == 438   \* 0666

\* part_000: unarchivePerm
unarchivePerm(mode) ==
    LET m1 == IF BitAnd(mode, PermOtherAll) # 0 THEN BitOr(mode, PermOtherX) ELSE mode
        m2 == IF BitAnd(m1, PermGroupAll) # 0 THEN BitOr(m1, PermGroupX) ELSE m1
    IN BitOr(m2, PermOwnerWX)

\* the mode a directory entry is created with
DirPerm(r, mode) == IF r = "part" THEN unarchivePerm(mode) ELSE BitOr(mode, PermOwnerWX)

(***************************************************************************)
(* Streams.  A byte is a short string naming it.                           *)
(***************************************************************************)
GzipMagic == <<"1f", "8b">>
Bzip2Magic == <<"B", "Z", "h">>
ZipMagic == <<"P", "K">>
TarMagic == <<"u", "s", "t", "a", "r">>

NoErr == [msg |-> "", name |-> <<>>]
Fatal(msg, name) == [msg |-> msg, name |-> name]

\* what reading a stream that fails at once yields
CorruptStream == [bytes |-> <<>>, rerr |-> TRUE, gzname |-> <<>>]

\* the stream at nesting depth d
StreamAt(d) == IF d <= Len(streams) THEN streams[d] ELSE CorruptStream

\* bufio.Reader.Peek(n): up to n bytes from the start, none consumed
Peek(s, n) == SubSeq(s.bytes, 1, Min(n, Len(s.bytes)))

\* s[n:], the slice expression of Go: it panics when n > len(s)
SliceFrom(s, n) == IF n > Len(s) THEN <<"panic">> ELSE SubSeq(s, n + 1, Len(s))

\* the switch of uncompress with the tar case's length guard dropped
ClassifyNoLenGuard(magic, so) ==
    IF HasPrefix(magic, GzipMagic) THEN "gzip"
    ELSE IF HasPrefix(magic, Bzip2Magic) THEN "bzip2"
    ELSE IF ~so /\ HasPrefix(magic, ZipMagic) THEN "zip"
    ELSE IF ~so /\ SliceFrom(magic, TarMagicOffset) = <<"panic">> THEN "panic"
    ELSE IF ~so /\ HasPrefix(SliceFrom(magic, TarMagicOffset), TarMagic) THEN "tar"
    ELSE "opaque"

\* the switch of uncompress with the tar case moved to the front
ClassifyTarFirst(magic, so) ==
    IF ~so /\ Len(magic) > TarMagicOffset
           /\ HasPrefix(SliceFrom(magic, TarMagicOffset), TarMagic) THEN "tar"
    ELSE IF HasPrefix(magic, GzipMagic) THEN "gzip"
    ELSE IF HasPrefix(magic, Bzip2Magic) THEN "bzip2"
    ELSE IF ~so /\ HasPrefix(magic, ZipMagic) THEN "zip"
    ELSE "opaque"

\* the switch of uncompress with the zip case not asking for the destination
ClassifyZipOnStdout(magic, so) ==
    IF HasPrefix(magic, GzipMagic) THEN "gzip"
    ELSE IF HasPrefix(magic, Bzip2Magic) THEN "bzip2"
    ELSE IF HasPrefix(magic, ZipMagic) THEN "zip"
    ELSE IF ~so /\ Len(magic) > TarMagicOffset
                /\ HasPrefix(SliceFrom(magic, TarMagicOffset), TarMagic) THEN "tar"
    ELSE "opaque"

\* the switch of uncompress: the first case that matches
Classify(magic, so) ==
    IF HasPrefix(magic, GzipMagic) THEN "gzip"
    ELSE IF HasPrefix(magic, Bzip2Magic) THEN "bzip2"
    ELSE IF ~so /\ HasPrefix(magic, ZipMagic) THEN "zip"
    ELSE IF ~so /\ Len(magic) > TarMagicOffset
                /\ HasPrefix(SliceFrom(magic, TarMagicOffset), TarMagic) THEN "tar"
    ELSE "opaque"

\* the stream with the sniffed bytes taken out of it
AfterSniffConsumed(s) ==
    [s EXCEPT !.bytes = SubSeq(s.bytes, Min(SniffWindow, Len(s.bytes)) + 1, Len(s.bytes))]

\* the stream the reader r holds after r.Peek: Peek does not advance the
\* reader, so the stage that gets r reads from the first byte
AfterSniff(s) == s

\* the branch uncompress takes for the stream at the current depth
Sniff == Classify(Peek(StreamAt(depth), SniffWindow), stdout)

(***************************************************************************)
(* Plain Writer: targetFile and write/copy.                                *)
(*                                                                         *)
(* fault is the failure the environment injects into this step: "none",    *)
(* or the call that fails ("mkdir", "open", "read", "write", "close",      *)
(* "write+close", "chtimes", "symlink").                                   *)
(***************************************************************************)
Call(op, path) == [op |-> op, path |-> path]

StdoutName == <<"-">>

\* the check of part_000's targetFile on the inferred name
NameIsLegal(name) == ~ContainsRune(name, SEP)

\* targetFile: the destination to write to.  std: it is standard output;
\* at: the node the handle writes to; target: the global after the call
TargetFile(r, f, tgt, name, fault) ==
    LET path == IF r = "part"
                THEN Abs(IF targetIsDir THEN Join(tgt, name) ELSE tgt)
                ELSE IF targetIsDir THEN Join(tgt, name) ELSE tgt
        tgt2 == IF r = "main" THEN path ELSE tgt
        illegal == /\ targetIsDir
                   /\ IF r = "part" THEN ~NameIsLegal(name)
                      ELSE ~HasPrefix(path, tgt \o <<SEP>>)
        mode == IF r = "part" THEN PermDirAll ELSE PermDirMain
        mk == IF fault = "mkdir" THEN [fs |-> f, err |-> "EIO"]
              ELSE MkdirAll(f, PathOf(Dir(path)), mode)
        op == IF fault = "open" THEN [fs |-> mk.fs, err |-> "EIO", at |-> <<>>]
              ELSE OpenFile(mk.fs, PathOf(path), PermFileAll)
    IN
    IF stdout
    THEN [err |-> NoErr, fs |-> f, std |-> TRUE, at |-> <<>>, target |-> tgt, calls |-> <<>>]
    ELSE IF illegal
    THEN [err |-> Fatal("illegal file path", name), fs |-> f, std |-> FALSE, at |-> <<>>,
          target |-> tgt2, calls |-> <<>>]
    ELSE IF mk.err # ""
    THEN [err |-> Fatal(mk.err, <<>>), fs |-> mk.fs, std |-> FALSE, at |-> <<>>,
          target |-> tgt2, calls |-> <<Call("MkdirAll", Dir(path))>>]
    ELSE [err |-> IF op.err # "" THEN Fatal(op.err, <<>>) ELSE NoErr,
          fs |-> op.fs, std |-> FALSE, at |-> op.at, target |-> tgt2,
          calls |-> <<Call("MkdirAll", Dir(path)), Call("OpenFile", path)>>]

\* io.Copy and Close with the close error reported before the copy error
CopyCloseWins(f, o, std, at, src, fault) ==
    LET wfail == fault \in {"write", "write+close"}
        cfail == fault \in {"close", "write+close"}
        bytes == IF wfail THEN <<>> ELSE src.bytes
        cerr == IF wfail THEN "EIO"
                ELSE IF src.rerr \/ fault = "read" THEN "read error"
                ELSE ""
    IN
    [fs |-> IF std THEN f ELSE WriteAt(f, at, bytes),
     out |-> IF std THEN o \o bytes ELSE o,
     n |-> Len(bytes),
     err |-> IF cfail THEN "close error" ELSE cerr,
     calls |-> <<Call("Copy", <<>>), Call("Close", <<>>)>>]

\* io.Copy(w, r) then w.Close(): everything r yields goes to w, in order; the
\* copy error wins over the close error.  n: bytes written
Copy(f, o, std, at, src, fault) ==
    LET wfail == fault \in {"write", "write+close"}
        cfail == fault \in {"close", "write+close"}
        bytes == IF wfail THEN <<>> ELSE src.bytes
        cerr == IF wfail THEN "EIO"
                ELSE IF src.rerr \/ fault = "read" THEN "read error"
                ELSE ""
    IN
    [fs |-> IF std THEN f ELSE WriteAt(f, at, bytes),
     out |-> IF std THEN o \o bytes ELSE o,
     n |-> Len(bytes),
     err |-> IF cerr # "" THEN cerr ELSE IF cfail THEN "close error" ELSE "",
     calls |-> <<Call("Copy", <<>>), Call("Close", <<>>)>>]

\* write(r, w) on the destination tf that targetFile() returned; a fatal error
\* in targetFile ends the process before write is called
WriteTo(tf, src, fault) ==
    LET cp == Copy(tf.fs, out, tf.std, tf.at, src, fault) IN
    IF tf.err # NoErr
    THEN [fs |-> tf.fs, out |-> out, err |-> tf.err, target |-> tf.target, calls |-> tf.calls]
    ELSE [fs |-> cp.fs, out |-> cp.out,
          err |-> IF cp.err # "" THEN Fatal(cp.err, <<>>) ELSE NoErr,
          target |-> tf.target, calls |-> tf.calls \o cp.calls]

\* write(r, targetFile()) / copy(targetFile(), r)
WritePlain(src, fault) ==
    CHOOSE w \in {WriteTo(tf, src, fault) :
                    tf \in {TargetFile(rev, fs, target, targetName, fault)}} : TRUE

PlainFaults == {"none", "mkdir", "open", "read", "write", "close", "write+close"}

(***************************************************************************)
(* Secure Extractor: one iteration of unarchive's loop.                    *)
(***************************************************************************)
\* the directory entries are joined to
ArchiveDir(r, tgt) == IF r = "part" THEN Abs(tgt) \o <<SEP>> ELSE tgt

\* the prefix the joined path must have, without its trailing separator
ArchivePrefixNoSep(r, tgt) == IF r = "part" THEN Abs(tgt) ELSE tgt

\* the prefix the joined path must have
ArchivePrefix(r, tgt) == IF r = "part" THEN ArchiveDir(r, tgt) ELSE tgt \o <<SEP>>

\* filepath.Join(dir, filepath.FromSlash(name))
EntryPath(r, tgt, name) == Join(ArchiveDir(r, tgt), name)

\* the outcome of an iteration: cont says whether the loop goes on (no return)
Step(f, e, c, cont) == [fs |-> f, err |-> e, calls |-> c, cont |-> cont]

ExtractDir(r, f, path, e, fault) ==
    LET mk == IF fault = "mkdir" THEN [fs |-> f, err |-> "EIO"]
              ELSE MkdirAll(f, PathOf(path), DirPerm(r, e.mode))
        c == <<Call("MkdirAll", path)>>
    IN
    IF mk.err # "" THEN Step(mk.fs, Fatal(mk.err, <<>>), c, FALSE)
    ELSE Step(mk.fs, NoErr, c, TRUE)

\* the check on the byte count of a regular file: "" or the error
SizeCheck(r, n, e) == IF r = "part" /\ n # e.size THEN "size mismatch" ELSE ""

\* the case of a regular file with a failure of os.Chtimes returned as error
ExtractFileChtimesFatal(r, f, path, e, fault) ==
    LET op == IF fault = "open" THEN [fs |-> f, err |-> "EIO", at |-> <<>>]
              ELSE OpenFile(f, PathOf(path), e.mode)
        cp == Copy(op.fs, <<>>, FALSE, op.at, [bytes |-> e.body, rerr |-> FALSE], fault)
        c1 == <<Call("OpenFile", path)>>
        c2 == c1 \o cp.calls
        sz == SizeCheck(r, cp.n, e)
        ct == IF fault = "chtimes" THEN [fs |-> cp.fs, err |-> "EIO"]
              ELSE Chtimes(cp.fs, PathOf(path), e.mtime)
    IN
    IF op.err # "" THEN Step(op.fs, Fatal(op.err, <<>>), c1, FALSE)
    ELSE IF cp.err # ""
    THEN Step(cp.fs, IF r = "part" THEN Fatal("error writing", e.name)
                     ELSE Fatal(cp.err, <<>>), c2, FALSE)
    ELSE IF sz # "" THEN Step(cp.fs, Fatal(sz, e.name), c2, FALSE)
    ELSE IF r = "part" /\ e.mtime # 0
    THEN Step(ct.fs, IF ct.err # "" THEN Fatal(ct.err, <<>>) ELSE NoErr,
              c2 \o <<Call("Chtimes", path)>>, ct.err = "")
    ELSE Step(cp.fs, NoErr, c2, TRUE)

ExtractFile(r, f, path, e, fault) ==
    LET op == IF fault = "open" THEN [fs |-> f, err |-> "EIO", at |-> <<>>]
              ELSE OpenFile(f, PathOf(path), e.mode)
        cp == Copy(op.fs, <<>>, FALSE, op.at, [bytes |-> e.body, rerr |-> FALSE], fault)
        c1 == <<Call("OpenFile", path)>>
        c2 == c1 \o cp.calls
        sz == SizeCheck(r, cp.n, e)
        ct == IF fault = "chtimes" THEN [fs |-> cp.fs, err |-> "EIO"]
              ELSE Chtimes(cp.fs, PathOf(path), e.mtime)
    IN
    IF op.err # "" THEN Step(op.fs, Fatal(op.err, <<>>), c1, FALSE)
    ELSE IF cp.err # ""
    THEN Step(cp.fs, IF r = "part" THEN Fatal("error writing", e.name)
                     ELSE Fatal(cp.err, <<>>), c2, FALSE)
    ELSE IF sz # "" THEN Step(cp.fs, Fatal(sz, e.name), c2, FALSE)
    ELSE IF r = "part" /\ e.mtime # 0
    THEN Step(ct.fs, NoErr, c2 \o <<Call("Chtimes", path)>>, TRUE)
    ELSE Step(cp.fs, NoErr, c2, TRUE)

ExtractLink(r, f, path, e, fault) ==
    LET sl == IF fault = "symlink" THEN [fs |-> f, err |-> "EIO"]
              ELSE Symlink(f, e.body, PathOf(path))
        c == <<Call("Symlink", path)>>
    IN
    IF fault = "read" THEN Step(f, Fatal("read error", <<>>), <<>>, FALSE)
    ELSE IF sl.err # "" THEN Step(sl.fs, Fatal(sl.err, <<>>), c, FALSE)
    ELSE Step(sl.fs, NoErr, c, TRUE)

\* an entry that is no directory, regular file or symbolic link
ExtractOther(r, f, e) ==
    IF r = "part" THEN Step(f, Fatal("unsupported file", e.name), <<>>, FALSE)
    ELSE Step(f, NoErr, <<>>, TRUE)

\* the body of the loop after unarchiveNext returned entry e
Extract(r, f, tgt, e, fault) ==
    LET path == EntryPath(r, tgt, e.name) IN
    IF ~HasPrefix(path, ArchivePrefix(r, tgt))
    THEN Step(f, Fatal("illegal file path", e.name), <<>>, FALSE)
    ELSE IF e.kind = "dir" THEN ExtractDir(r, f, path, e, fault)
    ELSE IF e.kind = "file" THEN ExtractFile(r, f, path, e, fault)
    ELSE IF e.kind = "link" THEN ExtractLink(r, f, path, e, fault)
    ELSE ExtractOther(r, f, e)

\* the faults that can be injected into the extraction of an entry
EntryFaults(e) ==
    IF e.kind = "dir" THEN {"none", "mkdir"}
    ELSE IF e.kind = "file"
    THEN {"none", "open", "read", "write", "close"}
         \cup (IF e.mtime # 0 THEN {"chtimes"} ELSE {})
    ELSE IF e.kind = "link" THEN {"none", "read", "symlink"}
    ELSE {"none"}

(***************************************************************************)
(* Inputs.                                                                 *)
(***************************************************************************)
OutDir == <<"/", "o", "u", "t">>
OutFile == <<"/", "o", "u", "t", "/", "t">>
EtcDir == <<"/", "e", "t", "c">>

\* a stream of len bytes: head first, then filler, "ustar" at the tar offset
Bytes(head, len, ustar) ==
    [i \in 1..len |->
        IF i <= Len(head) THEN head[i]
        ELSE IF ustar /\ i > TarMagicOffset /\ i <= TarMagicOffset + Len(TarMagic)
             THEN TarMagic[i - TarMagicOffset]
        ELSE "00"]

Stream(bytes, rerr, gzname) == [bytes |-> bytes, rerr |-> rerr, gzname |-> gzname]

Heads == {GzipMagic, Bzip2Magic, ZipMagic, <<>>, <<"1f">>, <<"B", "Z">>}
Lens == {0, 1, 2, 3, TarMagicOffset, TarMagicOffset + 1, TarMagicOffset + 5,
         SniffWindow, SniffWindow + 36}

\* single streams that exercise the sniffer
SniffInputs ==
    {Stream(Bytes(h, l, u), FALSE, <<>>) : h \in Heads, l \in Lens, u \in BOOLEAN}

\* innermost streams behind compression layers
InnerInputs ==
    {Stream(Bytes(<<"h", "i">>, 3, FALSE), r, <<>>) : r \in BOOLEAN}
    \cup {Stream(Bytes(ZipMagic, 4, FALSE), FALSE, <<>>),
          Stream(Bytes(<<>>, TarMagicOffset + 5, TRUE), FALSE, <<>>),
          Stream(Bytes(GzipMagic, 2, FALSE), FALSE, <<>>),
          Stream(Bytes(Bzip2Magic, 3, FALSE), FALSE, <<>>),
          Stream(<<>>, FALSE, <<>>)}

GzNames == {<<>>, <<"g">>, <<".", ".", "/", "e">>, <<"a", "/", "b">>}

\* compressed streams: a gzip member with or without a name in its header, a
\* bzip2 stream
LayerInputs ==
    {Stream(Bytes(GzipMagic, 4, FALSE), FALSE, n) : n \in GzNames}
    \cup {Stream(Bytes(Bzip2Magic, 4, FALSE), FALSE, <<>>)}

RECURSIVE SeqsUpTo(_, _)
SeqsUpTo(S, n) ==
    IF n = 0 THEN {<<>>}
    ELSE LET shorter == SeqsUpTo(S, n - 1) IN
         shorter \cup {Append(q, x) : q \in {t \in shorter : Len(t) = n - 1}, x \in S}

\* the names main infers when the target is a directory
TargetNames ==
    {<<"f", ".", "g", "z">>, <<"f", ".", "b", "z", "2">>, <<"f", "g", "z">>, <<".">>}

\* an archive entry: the header fields unarchiveNext returns (name, and kind,
\* mode, size, mtime through FileInfo), the bytes the reader yields for it
\* (body), and the header's Linkname, which nothing reads
Entry(name, kind, mode, size, body, mtime) ==
    [name |-> name, kind |-> kind, mode |-> mode, size |-> size, body |-> body,
     mtime |-> mtime, linkname |-> <<>>]

\* a symbolic link of a tar archive: the target is in the header, the entry
\* has no content
TarLink(name, old) ==
    [name |-> name, kind |-> "link", mode |-> PermDirAll, size |-> 0, body |-> <<>>,
     mtime |-> 0, linkname |-> old]

EntryNames == {<<"a">>, <<"a", "/", "b">>, <<"b">>, <<".", ".", "/", "e">>, <<".">>}

ModeDirEntry == 288    \* 0440
ModeFileEntry == 420   \* 0644

FileVariants ==
    {<<1, <<"x">>, 0>>, <<1, <<"x">>, 5>>, <<2, <<"x">>, 0>>, <<0, <<"x">>, 0>>,
     <<0, <<>>, 0>>, <<2, <<"y", "z">>, 0>>}

\* the content of a symbolic-link entry of a zip archive, which stores the
\* target there
LinkTargets == {EtcDir, <<"a">>, <<>>}

\* further stored permissions of directory entries: 0506, 0011, 0, 0777
DirModes == {326, 9, 0, PermDirAll}

DirEntries ==
    {Entry(n, "dir", ModeDirEntry, 0, <<>>, 0) : n \in EntryNames}
    \cup {Entry(<<"a">>, "dir", m, 0, <<>>, 0) : m \in DirModes}
\* regular files: every variant under the names below the destination that
\* other entries use as directory or link, one variant under the other names
FileEntries ==
    {Entry(n, "file", ModeFileEntry, v[1], v[2], v[3]) :
        n \in {<<"a">>, <<"a", "/", "b">>}, v \in FileVariants}
    \cup {Entry(n, "file", ModeFileEntry, 1, <<"x">>, 0) : n \in EntryNames}
LinkEntries ==
    {Entry(n, "link", PermDirAll, 0, t, 0) : n \in EntryNames, t \in LinkTargets}
    \cup {TarLink(n, EtcDir) : n \in EntryNames}
OtherEntries ==
    {Entry(n, "other", ModeFileEntry, 0, <<>>, 0) : n \in {<<"a">>, <<".", ".", "/", "e">>}}

\* entries whose name leads to the destination directory itself
SelfNames == {<<>>, <<".">>, <<".", "/">>, <<"a", "/", ".", ".">>}
SelfEntries ==
    {Entry(n, "dir", ModeDirEntry, 0, <<>>, 0) : n \in SelfNames}
    \cup {Entry(<<"a", "/", ".", ".">>, "file", ModeFileEntry, 1, <<"x">>, 0)}

Entries == DirEntries \cup FileEntries \cup LinkEntries \cup OtherEntries \cup SelfEntries

\* the entries a reader of format c ("zip", "tar") can return: a symbolic link
\* comes with its target in the content (zip) or in the header (tar)
InArchive(e, c) == e.kind = "link" => (c = "tar" <=> e.linkname # <<>>)

\* the entries of whole-pipeline runs
PipelinePool ==
    {Entry(<<"a">>, "dir", ModeDirEntry, 0, <<>>, 0),
     Entry(<<"a">>, "file", ModeFileEntry, 1, <<"x">>, 5),
     Entry(<<"a">>, "file", ModeFileEntry, 2, <<"x">>, 0),
     Entry(<<"a">>, "link", PermDirAll, 0, EtcDir, 0),
     TarLink(<<"a">>, EtcDir),
     Entry(<<"a">>, "other", ModeFileEntry, 0, <<>>, 0),
     Entry(<<".", ".", "/", "e">>, "file", ModeFileEntry, 1, <<"x">>, 0)}

RootFS == (<<>> :> DirNode(PermDirMain)) @@ (PathOf(EtcDir) :> DirNode(PermDirMain))
DestFS == (PathOf(OutDir) :> DirNode(PermDirMain)) @@ RootFS

(***************************************************************************)
(* Initial states: main has parsed its arguments, got the response and     *)
(* inferred targetName.                                                    *)
(***************************************************************************)
\* the destination: standard output, a file, or a directory with a name
InitTarget ==
    \/ stdout = TRUE /\ targetIsDir = FALSE /\ targetName = <<>>
       /\ target = IF rev = "main" THEN Abs(StdoutName) ELSE StdoutName
    \/ stdout = FALSE /\ targetIsDir = FALSE /\ targetName = <<>> /\ target = OutFile
    \/ stdout = FALSE /\ targetIsDir = TRUE /\ targetName \in TargetNames /\ target = OutDir

InitCommon ==
    /\ rev \in {"main", "part"}
    /\ InitTarget
    /\ depth = 1
    /\ pc = "main"
    /\ class = ""
    /\ trace = <<>>
    /\ err = NoErr
    /\ fs \in {RootFS, DestFS}
    /\ out = <<>>
    /\ read = <<>>
    /\ calls = <<>>
    /\ injected = "none"
    /\ handed = <<>>

InitSniff ==
    /\ unpack = TRUE
    /\ streams \in {<<s>> : s \in SniffInputs}

InitLayers ==
    /\ unpack = TRUE
    /\ streams \in {l \o <<s>> : l \in SeqsUpTo(LayerInputs, MaxLayers) \ {<<>>},
                                 s \in InnerInputs}

InitPlain ==
    /\ unpack = FALSE
    /\ streams \in {<<s>> : s \in InnerInputs}

Init == InitCommon /\ (InitSniff \/ InitLayers \/ InitPlain)

\* uncompress has just dispatched a zip or tar stream to unarchive
InitArchive ==
    /\ rev \in {"main", "part"}
    /\ unpack = TRUE
    /\ stdout = FALSE
    /\ targetIsDir = TRUE
    /\ targetName = <<"f">>
    /\ target = OutDir
    /\ \/ streams = <<Stream(Bytes(ZipMagic, 4, FALSE), FALSE, <<>>)>> /\ class = "zip"
       \/ streams = <<Stream(Bytes(<<>>, TarMagicOffset + 5, TRUE), FALSE, <<>>)>>
          /\ class = "tar"
    /\ depth = 1
    /\ pc = "unarchive"
    /\ trace = <<class>>
    /\ err = NoErr
    /\ fs = DestFS
    /\ out = <<>>
    /\ read = <<>>
    /\ calls = <<>>
    /\ injected = "none"
    /\ handed = streams[1].bytes

(***************************************************************************)
(* Actions.                                                                *)
(***************************************************************************)
Finish(e) == pc' = "done" /\ err' = e

\* main with -unpack: uncompress(bufio.NewReader(res.Body))
MainUnpack ==
    /\ pc = "main" /\ unpack
    /\ pc' = "uncompress"
    /\ UNCHANGED <<rev, unpack, stdout, targetIsDir, target, targetName, streams, depth,
                   class, trace, err, fs, out, read, calls, injected, handed>>

\* main without -unpack: write(res.Body, targetFile())
MainWrite ==
    /\ pc = "main" /\ ~unpack
    /\ \E fault \in PlainFaults :
         \E w \in {WritePlain(StreamAt(depth), fault)} :
         /\ fs' = w.fs /\ out' = w.out /\ target' = w.target /\ calls' = w.calls
         /\ injected' = fault
         /\ Finish(w.err)
    /\ UNCHANGED <<rev, unpack, stdout, targetIsDir, targetName, streams, depth,
                   class, trace, read, handed>>

\* the name after a gzip layer: the header's name, else ".gz" trimmed
GzipNameKeep(name, gzname) == name

GzipName(name, gzname) == IF gzname # <<>> THEN gzname ELSE TrimSuffix(name, <<".", "g", "z">>)

\* the name after a bzip2 layer: ".bz2" trimmed
Bzip2Name(name) == TrimSuffix(name, <<".", "b", "z", "2">>)

\* the recursion looks at the same stream again
NextDepthSame(d) == d

\* the recursion looks at the stream the decompressing reader yields
NextDepth(d) == d + 1

\* case gzip: gzip.NewReader reads the header; the recursion goes on with the
\* decompressed stream
UncompressGzip ==
    /\ pc = "uncompress" /\ Sniff = "gzip"
    /\ class' = "gzip" /\ trace' = Append(trace, "gzip")
    /\ handed' = AfterSniff(StreamAt(depth)).bytes
    /\ IF depth < Len(streams) /\ HasPrefix(AfterSniff(StreamAt(depth)).bytes, GzipMagic)
       THEN /\ targetName' = GzipName(targetName, StreamAt(depth).gzname)
            /\ depth' = NextDepth(depth)
            /\ UNCHANGED <<pc, err>>
       ELSE /\ Finish(Fatal("gzip: invalid header", <<>>))
            /\ UNCHANGED <<targetName, depth>>
    /\ calls' = <<>> /\ injected' = "none"
    /\ UNCHANGED <<rev, unpack, stdout, targetIsDir, target, streams, fs, out, read>>

\* case bzip2: bzip2.NewReader cannot fail; a corrupt stream fails when read
UncompressBzip2 ==
    /\ pc = "uncompress" /\ Sniff = "bzip2"
    /\ class' = "bzip2" /\ trace' = Append(trace, "bzip2")
    /\ handed' = AfterSniff(StreamAt(depth)).bytes
    /\ targetName' = Bzip2Name(targetName)
    /\ depth' = NextDepth(depth)
    /\ calls' = <<>> /\ injected' = "none"
    /\ UNCHANGED <<rev, unpack, stdout, targetIsDir, target, streams, pc, err, fs, out, read>>

\* case zip, case tar: unarchive is called on the stream
UncompressArchive ==
    /\ pc = "uncompress" /\ Sniff \in {"zip", "tar"}
    /\ class' = Sniff /\ trace' = Append(trace, Sniff)
    /\ handed' = AfterSniff(StreamAt(depth)).bytes
    /\ pc' = "unarchive"
    /\ calls' = <<>> /\ injected' = "none"
    /\ UNCHANGED <<rev, unpack, stdout, targetIsDir, target, targetName, streams, depth,
                   err, fs, out, read>>

\* default: write(r, targetFile()); an index out of range ends the process
UncompressPlain ==
    /\ pc = "uncompress" /\ Sniff \notin {"gzip", "bzip2", "zip", "tar"}
    /\ class' = Sniff /\ trace' = Append(trace, Sniff)
    /\ handed' = AfterSniff(StreamAt(depth)).bytes
    /\ IF Sniff = "opaque"
       THEN \E fault \in PlainFaults :
              \E w \in {WritePlain(AfterSniff(StreamAt(depth)), fault)} :
              /\ fs' = w.fs /\ out' = w.out /\ target' = w.target /\ calls' = w.calls
              /\ injected' = fault
              /\ Finish(w.err)
       ELSE /\ Finish(Fatal("panic", <<>>))
            /\ UNCHANGED <<fs, out, target, calls, injected>>
    /\ UNCHANGED <<rev, unpack, stdout, targetIsDir, targetName, streams, depth, read>>

\* unarchive before its loop: part_000 makes the destination directory
UnarchiveBegin ==
    /\ pc = "unarchive"
    /\ IF rev = "part"
       THEN \E fault \in {"none", "mkdir"} :
              LET dir == ArchiveDir(rev, target)
                  mk == IF fault = "mkdir" THEN [fs |-> fs, err |-> "EIO"]
                        ELSE MkdirAll(fs, PathOf(dir), PermDirAll)
              IN
              /\ fs' = mk.fs
              /\ calls' = <<Call("MkdirAll", dir)>>
              /\ injected' = fault
              /\ IF mk.err # "" THEN Finish(Fatal(mk.err, <<>>))
                 ELSE pc' = "entries" /\ UNCHANGED err
       ELSE pc' = "entries" /\ calls' = <<>> /\ injected' = "none" /\ UNCHANGED <<fs, err>>
    /\ UNCHANGED <<rev, unpack, stdout, targetIsDir, target, targetName, streams, depth,
                   class, trace, out, read, handed>>

\* unarchiveNext returns io.EOF: unarchive returns without error
UnarchiveEOF ==
    /\ pc = "entries"
    /\ Finish(NoErr)
    /\ calls' = <<>> /\ injected' = "none"
    /\ UNCHANGED <<rev, unpack, stdout, targetIsDir, target, targetName, streams, depth,
                   class, trace, fs, out, read, handed>>

\* unarchiveNext returns another error: the archive is malformed
UnarchiveError ==
    /\ pc = "entries"
    /\ Finish(Fatal("archive format error", <<>>))
    /\ calls' = <<>> /\ injected' = "none"
    /\ UNCHANGED <<rev, unpack, stdout, targetIsDir, target, targetName, streams, depth,
                   class, trace, fs, out, read, handed>>

\* unarchiveNext returns an entry and the loop body handles it
UnarchiveEntry(pool, max) ==
    /\ pc = "entries" /\ Len(read) < max
    /\ \E e \in {x \in pool : InArchive(x, class)} : \E fault \in EntryFaults(e) :
         \E st \in {Extract(rev, fs, target, e, fault)} :
         /\ read' = Append(read, e)
         /\ fs' = st.fs
         /\ calls' = st.calls
         /\ injected' = fault
         /\ err' = st.err
         /\ pc' = IF st.cont THEN "entries" ELSE "done"
    /\ UNCHANGED <<rev, unpack, stdout, targetIsDir, target, targetName, streams, depth,
                   class, trace, out, handed>>

UnarchivePipeline == UnarchiveEntry(PipelinePool, PipelineEntries)

UnarchiveArchive == UnarchiveEntry(Entries, MaxEntries)

Next ==
    \/ MainUnpack
    \/ MainWrite
    \/ UncompressGzip
    \/ UncompressBzip2
    \/ UncompressArchive
    \/ UncompressPlain
    \/ UnarchiveBegin
    \/ UnarchiveEOF
    \/ UnarchiveError
    \/ UnarchivePipeline

Spec == Init /\ [][Next]_vars

NextArchive ==
    \/ UnarchiveBegin
    \/ UnarchiveEOF
    \/ UnarchiveError
    \/ UnarchiveArchive

SpecArchive == InitArchive /\ [][NextArchive]_vars

(***************************************************************************)
(* Properties.                                                             *)
(***************************************************************************)
Last(q) == q[Len(q)]

\* the entry the last iteration of unarchive's loop handled
LastEntry == Last(read)

\* the joined path of an entry is not below the destination directory
NotBelowTarget(e) ==
    LET dest == Abs(target)
        joined == Clean(dest \o <<SEP>> \o e.name)
    IN ~(Len(joined) > Len(dest) + 1
         /\ SubSeq(joined, 1, Len(dest) + 1) = dest \o <<SEP>>)

IsGzip(b) == Len(b) >= 2 /\ b[1] = "1f" /\ b[2] = "8b"
IsBzip2(b) == Len(b) >= 3 /\ b[1] = "B" /\ b[2] = "Z" /\ b[3] = "h"
IsZip(b) == Len(b) >= 2 /\ b[1] = "P" /\ b[2] = "K"
IsTar(b) ==
    /\ Len(b) >= 262
    /\ b[258] = "u" /\ b[259] = "s" /\ b[260] = "t" /\ b[261] = "a" /\ b[262] = "r"

Expected(b, so) ==
    IF IsGzip(b) THEN "gzip"
    ELSE IF IsBzip2(b) THEN "bzip2"
    ELSE IF ~so /\ IsZip(b) THEN "zip"
    ELSE IF ~so /\ IsTar(b) THEN "tar"
    ELSE "opaque"

\* C2: every run of the switch takes exactly the branch the priority order
\* gzip, bzip2, zip (not stdout), tar (not stdout), opaque gives for the
\* stream it looks at; one branch per stream.
C2_ClassificationPriority ==
    /\ \A k \in 1..Len(trace) : trace[k] = Expected(StreamAt(k).bytes, stdout)
    /\ pc = "uncompress" => Len(trace) = depth - 1

\* C2 witness: a stream with the gzip magic and "ustar" at offset 257 went to
\* the gzip branch.
C2_Witness ==
    /\ trace # <<>>
    /\ Last(trace) = "gzip"
    /\ IsTar(StreamAt(Len(trace)).bytes)
    /\ ~stdout

\* C3 as stated: every stream shorter than the sniff window is classified as
\* opaque.
C3_ShortIsOpaque ==
    \A k \in 1..Len(trace) :
        Len(StreamAt(k).bytes) < SniffWindow => trace[k] = "opaque"

\* C3 as amended: on a stream shorter than the sniff window the switch never
\* fails, and takes the opaque branch unless the bytes that are there hold a
\* complete signature.
C3_ShortNeverFails ==
    \A k \in 1..Len(trace) :
        LET b == StreamAt(k).bytes IN
        Len(b) < SniffWindow =>
            /\ trace[k] \in {"gzip", "bzip2", "zip", "tar", "opaque"}
            /\ trace[k] = "opaque" <=>
                 ~(IsGzip(b) \/ IsBzip2(b) \/ (~stdout /\ (IsZip(b) \/ IsTar(b))))
            /\ (trace[k] = "opaque" /\ pc = "done" /\ k = Len(trace)
                  => err.msg # "panic")

\* C3 witness: a stream that ends inside the tar magic field was copied as
\* opaque to a file.
C3_Witness ==
    /\ ~stdout /\ pc = "done" /\ err = NoErr
    /\ trace = <<"opaque">>
    /\ Len(StreamAt(1).bytes) = TarMagicOffset + 1
    /\ calls # <<>>

\* b is the start of a
IsPrefixOf(b, a) == Len(b) <= Len(a) /\ SubSeq(a, 1, Len(b)) = b

\* C4: with standard output as destination unarchive is never entered, no
\* node of the filesystem changes, and the run ends in the Plain Writer, which
\* writes the innermost stream's bytes, in order, to standard output.
C4_StdoutNeverExtracts ==
    /\ [](stdout =>
            /\ pc \notin {"unarchive", "entries"}
            /\ \A k \in 1..Len(trace) : trace[k] \notin {"zip", "tar"}
            /\ read = <<>>
            /\ IsPrefixOf(out, StreamAt(depth).bytes)
            /\ (pc = "done" /\ err = NoErr) =>
                  /\ out = StreamAt(depth).bytes
                  /\ unpack => Last(trace) = "opaque"
                  /\ calls = <<Call("Copy", <<>>), Call("Close", <<>>)>>)
    /\ [][stdout => fs' = fs]_vars

\* C4 witness: a zip-signatured stream inside a compression layer was copied
\* to standard output.
C4_Witness ==
    /\ stdout /\ pc = "done" /\ err = NoErr
    /\ Len(trace) >= 2
    /\ IsZip(out)

\* the bytes the reader yields for a regular-file entry differ in number from
\* its declared size
SizeMismatch(e) == e.kind = "file" /\ Len(e.body) # e.size

\* C5: a regular-file entry is accepted only if the bytes written equal its
\* declared size; with a mismatch the run ends with an error.
C5_SizeMismatchIsFatal ==
    \A i \in 1..Len(read) :
        SizeMismatch(read[i]) => i = Len(read) /\ pc = "done" /\ err # NoErr

\* C6: an entry that is no directory, regular file or symbolic link ends the
\* run with an error naming it; the loop never goes on to the next entry.
C6_UnsupportedIsFatal ==
    \A i \in 1..Len(read) :
        read[i].kind = "other" =>
            i = Len(read) /\ pc = "done" /\ err # NoErr /\ err.name = read[i].name

\* the node the path of entry e leads to, symbolic links followed
EntryNode(f, e) == Walk(f, <<>>, PathOf(EntryPath(rev, target, e.name)), TRUE, MaxLinkHops).path

\* the entry carries one of the fatal conditions an archive can hold by
\* itself: a path outside the destination, a size mismatch, an unsupported
\* kind
FatalEntry(e) == NotBelowTarget(e) \/ SizeMismatch(e) \/ e.kind = "other"

\* C7: an entry with a fatal condition (containment failure, size mismatch,
\* unsupported kind) is the last one read and the run ends in failure; an
\* error ends the run.
C7_AbortOnFirstFatal ==
    /\ err # NoErr => pc = "done"
    /\ \A i \in 1..Len(read) :
         FatalEntry(read[i]) => i = Len(read) /\ pc = "done" /\ err # NoErr

\* The abort itself, whatever raised it: an error ends the run at once (no
\* entry is read after it, no step follows), and the step that fails removes
\* no node and changes none but the file the failing entry itself opened.
C7_AbortWithoutRollback ==
    /\ [](err # NoErr => pc = "done")
    /\ [][pc # "done"]_vars
    /\ [][err' # NoErr =>
            \A p \in DOMAIN fs :
                /\ p \in DOMAIN fs'
                /\ fs'[p] # fs[p] =>
                     /\ read' # read
                     /\ Last(read').kind = "file"
                     /\ p = EntryNode(fs, Last(read'))]_vars

\* an abort of that kind: the second entry failed and the first entry's file is on disk
\* with its content.
C7_Witness ==
    /\ pc = "done" /\ err.msg = "EIO"
    /\ Len(read) = 2
    /\ read[1].kind = "file" /\ read[1].name = <<"a">> /\ read[1].body = <<"x">>
    /\ read[2].kind = "link" /\ read[2].name = <<"b">>
    /\ PathOf(OutDir) \o <<<<"a">>>> \in DOMAIN fs
    /\ fs[PathOf(OutDir) \o <<<<"a">>>>].data = <<"x">>

\* the path of an entry relative to the destination
RelPath(e) == CleanComps(Split(e.name), <<>>)

\* the target a symbolic-link entry was packaged with
LinkTarget(e) == IF e.linkname # <<>> THEN e.linkname ELSE e.body

\* an archive of directories, regular files of their declared size and
\* symbolic links with a target, all below the destination, no path twice,
\* every parent directory listed before its children
WellFormed(q) ==
    /\ \A i \in 1..Len(q) :
        /\ q[i].kind \in {"dir", "file", "link"}
        /\ q[i].kind = "link" => LinkTarget(q[i]) # <<>>
        /\ ~NotBelowTarget(q[i])
        /\ ~SizeMismatch(q[i])
        /\ \A n \in 1..(Len(RelPath(q[i])) - 1) :
             \E j \in 1..(i - 1) :
                q[j].kind = "dir" /\ RelPath(q[j]) = SubSeq(RelPath(q[i]), 1, n)
    /\ \A i, j \in 1..Len(q) : i # j => RelPath(q[i]) # RelPath(q[j])

\* the failure was injected by the environment (disk, transport)
EnvFault == err.msg \in {"EIO", "read error", "close error", "error writing",
                         "archive format error"}

\* the destination tree holds exactly the entries of q
Reproduced(q) ==
    LET dest == PathOf(Abs(target))
        below == {p \in DOMAIN fs : Len(p) > Len(dest) /\ SubSeq(p, 1, Len(dest)) = dest}
    IN
    /\ below = {dest \o RelPath(q[i]) : i \in 1..Len(q)}
    /\ \A i \in 1..Len(q) :
         LET p == dest \o RelPath(q[i]) IN
         /\ p \in DOMAIN fs
         /\ fs[p].kind = q[i].kind
         /\ q[i].kind = "file" => fs[p].data = q[i].body
         /\ q[i].kind = "link" => fs[p].data = LinkTarget(q[i])

\* C8: extracting a well-formed archive into the empty destination directory
\* succeeds and reproduces its paths, file contents and link targets.
C8_RoundTrip ==
    (pc = "done" /\ WellFormed(read) /\ ~EnvFault)
        => err = NoErr /\ Reproduced(read)

\* the same for zip archives alone
C8_RoundTripZip ==
    (pc = "done" /\ class = "zip" /\ WellFormed(read) /\ ~EnvFault)
        => err = NoErr /\ Reproduced(read)

\* s without its last three characters if they are ".gz", else s
StripGz(n) ==
    IF Len(n) >= 3 /\ n[Len(n) - 2] = "." /\ n[Len(n) - 1] = "g" /\ n[Len(n)] = "z"
    THEN SubSeq(n, 1, Len(n) - 3) ELSE n

\* s without its last four characters if they are ".bz2", else s
StripBz2(n) ==
    IF /\ Len(n) >= 4 /\ n[Len(n) - 3] = "." /\ n[Len(n) - 2] = "b"
       /\ n[Len(n) - 1] = "z" /\ n[Len(n)] = "2"
    THEN SubSeq(n, 1, Len(n) - 4) ELSE n

\* C9: a gzip layer sets targetName to the header's name if it has one and
\* else removes a trailing ".gz"; a bzip2 layer removes a trailing ".bz2"; no
\* other step changes targetName.
C9_NamePerLayer ==
    [][IF depth' = depth + 1 /\ Last(trace') = "gzip"
       THEN targetName' = IF StreamAt(depth).gzname # <<>> THEN StreamAt(depth).gzname
                          ELSE StripGz(targetName)
       ELSE IF depth' = depth + 1 /\ Last(trace') = "bzip2"
       THEN targetName' = StripBz2(targetName)
       ELSE targetName' = targetName]_vars

\* C9 witness: after a gzip layer without a name and a bzip2 layer the name
\* lost ".gz" and kept the rest.
C9_Witness ==
    /\ Len(trace) >= 2 /\ trace[1] = "gzip" /\ trace[2] = "bzip2"
    /\ streams[1].gzname = <<>>
    /\ targetName = <<"f">>

\* C10: every step of the cycle strips one layer, at most the last branch
\* taken is a terminal one, the cycle never stops before one is taken, and a
\* valid input ends in the terminal branch of its innermost stream after as
\* many steps as it has streams.
C10_OneTerminalHandler ==
    /\ \A k \in 1..(Len(trace) - 1) : trace[k] \in {"gzip", "bzip2"}
    /\ pc = "uncompress" =>
         /\ depth = Len(trace) + 1
         /\ depth <= Len(streams) + 1
         /\ \A k \in 1..Len(trace) : trace[k] \in {"gzip", "bzip2"}
    /\ pc \in {"unarchive", "entries"} => trace # <<>> /\ Last(trace) \in {"zip", "tar"}
    /\ (pc = "done" /\ unpack /\ err.msg # "gzip: invalid header") =>
         Last(trace) \in {"zip", "tar", "opaque"}
    /\ (/\ pc = "done" /\ unpack
        /\ Expected(Last(streams).bytes, stdout) \notin {"gzip", "bzip2"}) =>
         /\ Len(trace) = Len(streams)
         /\ Last(trace) = Expected(Last(streams).bytes, stdout)
    /\ pc = "uncompress" => Sniff \in {"gzip", "bzip2", "zip", "tar", "opaque"}

\* C10 witness: two layers were stripped and the Plain Writer ran.
C10_Witness ==
    /\ pc = "done" /\ err = NoErr
    /\ trace = <<"gzip", "bzip2", "opaque">>
    /\ depth = 3

\* how many of the calls c are calls of op
NumCalls(c, op) == Cardinality({i \in 1..Len(c) : c[i].op = op})

\* C11: whenever write / copy runs, the destination is closed exactly once;
\* the error reported is the copy error if the copy failed, else the close
\* error if the close failed, else none; an error ends the run in failure.
C11_CopyErrorFirst ==
    [][(NumCalls(calls', "Copy") > 0 /\ (pc # "entries" \/ rev = "main")) =>
         LET copyFailed == \/ injected' \in {"write", "write+close", "read"}
                           \/ (pc # "entries" /\ StreamAt(depth).rerr)
             closeFailed == injected' \in {"close", "write+close"}
         IN
         /\ NumCalls(calls', "Copy") = 1
         /\ NumCalls(calls', "Close") = 1
         /\ copyFailed => err'.msg \in {"EIO", "read error"}
         /\ (~copyFailed /\ closeFailed) => err'.msg = "close error"
         /\ (~copyFailed /\ ~closeFailed) => err' = NoErr
         /\ (copyFailed \/ closeFailed) => pc' = "done" /\ err' # NoErr]_vars

\* C11 witness: the copy and the close both failed while an opaque stream was
\* written, and the copy error was reported.
C11_Witness ==
    /\ pc = "done" /\ class = "opaque"
    /\ injected = "write+close"
    /\ err.msg = "EIO"
    /\ NumCalls(calls, "Close") = 1

\* the last step wrote and closed the file of the regular-file entry it read,
\* with no failure of the environment
WroteLastEntry ==
    /\ read # <<>> /\ LastEntry.kind = "file"
    /\ NumCalls(calls, "Copy") > 0
    /\ injected \in {"none", "chtimes"}

\* C12: a regular-file entry with declared size 0 and non-empty content is
\* written in full and extraction goes on without an integrity error.
C12_ZeroSizeUnchecked ==
    (WroteLastEntry /\ LastEntry.size = 0 /\ LastEntry.body # <<>>) =>
        /\ err = NoErr /\ pc = "entries"
        /\ fs[EntryNode(fs, LastEntry)].data = LastEntry.body

\* the node at p lies in the tree of the destination directory
InsideDestination(p) ==
    LET dest == PathOf(Abs(target)) IN
    Len(p) > Len(dest) /\ SubSeq(p, 1, Len(dest)) = dest

\* C13: every regular file on disk after any sequence of entries lies in the
\* tree of the destination directory (no regular file exists before the
\* extraction starts).
C13_FilesInsideDestination ==
    pc \in {"entries", "done"} =>
        \A p \in DOMAIN fs : fs[p].kind = "file" => InsideDestination(p)

\* the name joined to the destination directory does not lead to a place
\* directly inside it
Elsewhere(name) ==
    LET dest == PathOf(OutDir)
        p == PathOf(Join(OutDir, name))
    IN ~(Len(p) = Len(dest) + 1 /\ Front(p) = dest)

\* C14: after an opaque stream was handled with a directory as destination,
\* every regular file on disk lies directly inside the destination directory,
\* and a name leading elsewhere ended the run with "illegal file path" before
\* any filesystem call.
C14_FileDirectlyInDestination ==
    (pc = "done" /\ unpack /\ class = "opaque" /\ targetIsDir) =>
        /\ \A p \in DOMAIN fs :
              fs[p].kind = "file" => Front(p) = PathOf(OutDir)
        /\ Elsewhere(targetName) =>
              err.msg = "illegal file path" /\ calls = <<>>

\* bit b (a power of two) of m is set
BitSet(m, b) == (m \div b) % 2 = 1

\* m with the bit b set
WithBit(m, b) == IF BitSet(m, b) THEN m ELSE m + b

\* the stored permission m with owner write and execute, group execute if a
\* group read or write bit is set, other execute if an other read or write
\* bit is set
Normalized(m) ==
    LET o == WithBit(WithBit(m, 128), 64)
        g == IF BitSet(m, 32) \/ BitSet(m, 16) THEN WithBit(o, 8) ELSE o
    IN IF BitSet(m, 4) \/ BitSet(m, 2) THEN WithBit(g, 1) ELSE g

\* C15: every directory made for a directory entry gets the entry's stored
\* permission normalized: 0300 added, 0010 added exactly with a group read or
\* write bit, 0001 added exactly with an other read or write bit.
C15_DirModeNormalized ==
    [][(read' # read /\ Last(read').kind = "dir") =>
         \A p \in DOMAIN fs' \ DOMAIN fs :
             fs'[p].kind = "dir" /\ fs'[p].mode = Normalized(Last(read').mode)]_vars

\* the name of e joined to the destination is the destination itself
NamesDestination(e) ==
    PathOf(Abs(target) \o <<SEP>> \o e.name) = PathOf(Abs(target))

ChtimesLast(c) ==
    /\ Len(c) >= 3
    /\ c[Len(c)].op = "Chtimes"
    /\ c[Len(c) - 1].op = "Close"
    /\ c[Len(c) - 2].op = "Copy"
    /\ NumCalls(c, "Chtimes") = 1

\* C17: os.Chtimes is called only for a regular-file entry with a non-zero
\* modification time, after the file was written, closed and found of the
\* declared size; whether the call fails or not, the step reports no error,
\* leaves the file with the entry's content and goes on to the next entry.
C17_ChtimesBestEffort ==
    [][(read' # read /\ NumCalls(calls', "Chtimes") > 0) =>
         LET e == Last(read') IN
         /\ e.kind = "file" /\ e.mtime # 0
         /\ ChtimesLast(calls')
         /\ Len(e.body) = e.size
         /\ injected' \in {"none", "chtimes"}
         /\ err' = NoErr /\ pc' = "entries"
         /\ fs'[EntryNode(fs', e)].data = e.body
         /\ injected' = "none" => fs'[EntryNode(fs', e)].mtime = e.mtime
         /\ \A p \in DOMAIN fs : p \in DOMAIN fs']_vars

\* C17 witness: setting the time of the first entry's file failed, and the
\* second entry was extracted.
C17_Witness ==
    /\ rev = "part"
    /\ Len(read) = 2 /\ err = NoErr
    /\ read[1].kind = "file" /\ read[1].mtime # 0 /\ read[1].name = <<"a">>
    /\ read[2].kind = "dir" /\ read[2].name = <<"b">>
    /\ fs[EntryNode(fs, read[1])].kind = "file"
    /\ fs[EntryNode(fs, read[1])].mtime = 0
    /\ fs[EntryNode(fs, read[1])].data = read[1].body
    /\ PathOf(OutDir) \o <<<<"b">>>> \in DOMAIN fs

\* C18: every run of uncompress hands the complete stream it sniffed, from
\* its first byte, to the stage that handles it; after a successful copy of an
\* opaque stream the destination holds exactly the bytes of that stream.
C18_SniffConsumesNothing ==
    /\ trace # <<>> => handed = StreamAt(Len(trace)).bytes
    /\ (pc = "done" /\ unpack /\ class = "opaque" /\ err = NoErr) =>
          IF stdout THEN out = StreamAt(depth).bytes
          ELSE /\ Len(calls) = 4 /\ calls[2].op = "OpenFile"
               /\ fs[PathOf(calls[2].path)].kind = "file"
               /\ fs[PathOf(calls[2].path)].data = StreamAt(depth).bytes

\* C18 witness: an opaque stream longer than the sniff window was copied to a
\* file.
C18_Witness ==
    /\ pc = "done" /\ unpack /\ class = "opaque" /\ err = NoErr /\ ~stdout
    /\ Len(StreamAt(depth).bytes) > SniffWindow
    /\ Len(handed) > SniffWindow
    /\ fs[PathOf(calls[2].path)].data = StreamAt(depth).bytes

====
